---------------------------- MODULE Spec2Model ----------------------------
(***************************************************************************)
(* Model of the IAQ decision engine of backend/action_selector.py:        *)
(*   IAQScoreCalculator.get_pollutant_score / get_pollutant_level,        *)
(*   IAQScoreCalculator.calculate_global_score,                           *)
(*   ActionSelector.select_actions / _create_action / _get_priority.      *)
(*                                                                         *)
(* Python floats are modelled as fixed-point numbers with Scale units per  *)
(* 1.0, next to the two non-numbers a caller can pass: NaN (every          *)
(* comparison is false) and None (every comparison raises TypeError).      *)
(* The weighted sum is kept in hundredths: every sub-score is a multiple   *)
(* of 20 and every weight a multiple of 0.05, and the double-precision sum *)
(* of the code equals the exact sum for every order and every subset of    *)
(* the four pollutants.                                                    *)
(***************************************************************************)
EXTENDS Integers, Sequences, FiniteSets, TLC

VARIABLES
    pc,                 \* which operation the driver is at
    calls,              \* log of get_pollutant_score/get_pollutant_level calls
    predictions,        \* argument of calculate_global_score (dict, in order)
    iaq_analysis,       \* what calculate_global_score returned / select_actions reads
    room_modules,       \* RoomModules argument of select_actions
    selection,          \* outcome of select_actions
    current_values,     \* current argument of analyze_risks (dict)
    predicted_values,   \* predicted argument of analyze_risks (dict)
    config,             \* self.config of the predictor
    risk_analysis,      \* what analyze_risks returned
    ml_models,          \* rows of the table ml_models of the registry
    registry_log        \* calls made to the registry, with what they returned

riskVars == <<current_values, predicted_values, config, risk_analysis>>

registryVars == <<ml_models, registry_log>>

vars == <<pc, calls, predictions, iaq_analysis, room_modules, selection,
          current_values, predicted_values, config, risk_analysis,
          ml_models, registry_log>>

-----------------------------------------------------------------------------
(* Values *)

\* fixed-point units per 1.0 of a Python float
Scale == 1000

Num(n) == [tag |-> "num", n |-> n]
NaN == [tag |-> "nan", n |-> 0]
None == [tag |-> "none", n |-> 0]
Inf == [tag |-> "inf", n |-> 0]

\* the float of an integer literal of the source
Lit(c) == Num(c * Scale)

\* Python's a <= b on floats (False as soon as one side is NaN)
Leq(a, b) ==
    IF a.tag = "nan" \/ b.tag = "nan" THEN FALSE
    ELSE IF b.tag = "inf" THEN TRUE
    ELSE IF a.tag = "inf" THEN FALSE
    ELSE a.n <= b.n

\* Python's a < b on floats
Lt(a, b) ==
    IF a.tag = "nan" \/ b.tag = "nan" THEN FALSE
    ELSE IF a.tag = "inf" THEN FALSE
    ELSE IF b.tag = "inf" THEN TRUE
    ELSE a.n < b.n

\* n rounded to the nearest multiple of m, ties to the even multiple
RoundHalfEven(n, m) ==
    LET q == n \div m
        r == n % m
    IN  IF 2 * r < m THEN q * m
        ELSE IF 2 * r > m THEN (q + 1) * m
        ELSE IF q % 2 = 0 THEN q * m ELSE (q + 1) * m

\* round(value, 2)
Round2(v) == IF v.tag = "num" THEN Num(RoundHalfEven(v.n, Scale \div 100)) ELSE v

-----------------------------------------------------------------------------
(* Enumerations and tables *)

PollutantType == {"co2", "pm25", "tvoc", "humidity", "temperature"}

BandOrder == <<"excellent", "good", "moderate", "poor", "very_poor">>

THRESHOLDS ==
    [p \in {"co2", "pm25", "tvoc", "humidity"} |->
        CASE p = "co2" ->
                [excellent |-> <<Lit(0), Lit(600)>>,
                 good      |-> <<Lit(600), Lit(1000)>>,
                 moderate  |-> <<Lit(1000), Lit(1400)>>,
                 poor      |-> <<Lit(1400), Lit(2000)>>,
                 very_poor |-> <<Lit(2000), Inf>>]
          [] p = "pm25" ->
                [excellent |-> <<Lit(0), Lit(12)>>,
                 good      |-> <<Lit(12), Lit(25)>>,
                 moderate  |-> <<Lit(25), Lit(50)>>,
                 poor      |-> <<Lit(50), Lit(100)>>,
                 very_poor |-> <<Lit(100), Inf>>]
          [] p = "tvoc" ->
                [excellent |-> <<Lit(0), Lit(200)>>,
                 good      |-> <<Lit(200), Lit(300)>>,
                 moderate  |-> <<Lit(300), Lit(500)>>,
                 poor      |-> <<Lit(500), Lit(1000)>>,
                 very_poor |-> <<Lit(1000), Inf>>]
          [] p = "humidity" ->
                [excellent |-> <<Lit(40), Lit(50)>>,
                 good      |-> <<Lit(30), Lit(60)>>,
                 moderate  |-> <<Lit(20), Lit(70)>>,
                 poor      |-> <<Lit(10), Lit(80)>>,
                 very_poor |-> <<Lit(0), Lit(100)>>]]

\* weights in hundredths
WEIGHTS == [p \in {"co2", "pm25", "tvoc", "humidity"} |->
               CASE p = "co2" -> 35
                 [] p = "pm25" -> 30
                 [] p = "tvoc" -> 25
                 [] p = "humidity" -> 10]

-----------------------------------------------------------------------------
(* 4.1 Pollutant score calculator *)

\* What the call raises: THRESHOLDS[pollutant] is a KeyError for a kind with
\* no table, and the first comparison with None is a TypeError.
ScoreRaises(pollutant, value) ==
    IF pollutant \notin DOMAIN THRESHOLDS THEN "KeyError"
    ELSE IF value.tag = "none" THEN "TypeError"
    ELSE "no"

\* mutant: every cutoff and band boundary exclusive (< in place of <=)
get_pollutant_score_exclusive(pollutant, value) ==
    LET thresholds == THRESHOLDS[pollutant]
    IN  IF pollutant = "humidity"
        THEN IF Lt(Lit(40), value) /\ Lt(value, Lit(50)) THEN 100
             ELSE IF Lt(Lit(30), value) /\ Lt(value, Lit(60)) THEN 80
             ELSE IF Lt(Lit(20), value) /\ Lt(value, Lit(70)) THEN 60
             ELSE IF Lt(Lit(10), value) /\ Lt(value, Lit(80)) THEN 40
             ELSE 20
        ELSE IF Lt(value, thresholds.excellent[2]) THEN 100
             ELSE IF Lt(value, thresholds.good[2]) THEN 80
             ELSE IF Lt(value, thresholds.moderate[2]) THEN 60
             ELSE IF Lt(value, thresholds.poor[2]) THEN 40
             ELSE 20

\* mutant: the scores of the good and the moderate band are exchanged
get_pollutant_score_swapped(pollutant, value) ==
    LET thresholds == THRESHOLDS[pollutant]
    IN  IF pollutant = "humidity"
        THEN IF Leq(Lit(40), value) /\ Leq(value, Lit(50)) THEN 100
             ELSE IF Leq(Lit(30), value) /\ Leq(value, Lit(60)) THEN 60
             ELSE IF Leq(Lit(20), value) /\ Leq(value, Lit(70)) THEN 80
             ELSE IF Leq(Lit(10), value) /\ Leq(value, Lit(80)) THEN 40
             ELSE 20
        ELSE IF Leq(value, thresholds.excellent[2]) THEN 100
             ELSE IF Leq(value, thresholds.good[2]) THEN 60
             ELSE IF Leq(value, thresholds.moderate[2]) THEN 80
             ELSE IF Leq(value, thresholds.poor[2]) THEN 40
             ELSE 20

get_pollutant_score(pollutant, value) ==
    LET thresholds == THRESHOLDS[pollutant]
    IN  IF pollutant = "humidity"
        THEN IF Leq(Lit(40), value) /\ Leq(value, Lit(50)) THEN 100
             ELSE IF Leq(Lit(30), value) /\ Leq(value, Lit(60)) THEN 80
             ELSE IF Leq(Lit(20), value) /\ Leq(value, Lit(70)) THEN 60
             ELSE IF Leq(Lit(10), value) /\ Leq(value, Lit(80)) THEN 40
             ELSE 20
        ELSE IF Leq(value, thresholds.excellent[2]) THEN 100
             ELSE IF Leq(value, thresholds.good[2]) THEN 80
             ELSE IF Leq(value, thresholds.moderate[2]) THEN 60
             ELSE IF Leq(value, thresholds.poor[2]) THEN 40
             ELSE 20

\* the for loop over thresholds.items(), in the table's declared order
RECURSIVE LevelScan(_, _, _)
LevelScan(thresholds, value, i) ==
    IF i > Len(BandOrder) THEN "very_poor"
    ELSE LET band == thresholds[BandOrder[i]]
         IN  IF Leq(band[1], value) /\ Lt(value, band[2]) THEN BandOrder[i]
             ELSE LevelScan(thresholds, value, i + 1)

get_pollutant_level(pollutant, value) ==
    LET thresholds == THRESHOLDS[pollutant]
    IN  IF pollutant = "humidity"
        THEN IF Leq(Lit(40), value) /\ Leq(value, Lit(50)) THEN "excellent"
             ELSE IF Leq(Lit(30), value) /\ Leq(value, Lit(60)) THEN "good"
             ELSE IF Leq(Lit(20), value) /\ Leq(value, Lit(70)) THEN "moderate"
             ELSE IF Leq(Lit(10), value) /\ Leq(value, Lit(80)) THEN "poor"
             ELSE "very_poor"
        ELSE LevelScan(thresholds, value, 1)

-----------------------------------------------------------------------------
(* 4.2 Composite score aggregator *)

EmptyAcc ==
    [weighted_score |-> 0, pollutants_details |-> <<>>, problematic |-> <<>>,
     raised |-> "no"]

\* mutant: a score of exactly 60 counts as problematic (<= 60)
ScoreEntry_upto60(acc, e) ==
    IF e.key \notin PollutantType THEN acc
    ELSE IF e.key \notin DOMAIN WEIGHTS THEN acc
    ELSE IF ScoreRaises(e.key, e.value) # "no"
         THEN [acc EXCEPT !.raised = ScoreRaises(e.key, e.value)]
    ELSE LET score == get_pollutant_score(e.key, e.value)
             level == get_pollutant_level(e.key, e.value)
             weight == WEIGHTS[e.key]
         IN  [weighted_score |-> acc.weighted_score + score * weight,
              pollutants_details |->
                  Append(acc.pollutants_details,
                         [pollutant |-> e.key, value |-> Round2(e.value),
                          score |-> score, level |-> level, weight |-> weight]),
              problematic |->
                  IF score <= 60
                  THEN Append(acc.problematic,
                              [pollutant |-> e.key, value |-> e.value,
                               score |-> score, level |-> level])
                  ELSE acc.problematic,
              raised |-> "no"]

\* mutant: only a score below 40 counts as problematic (< 40)
ScoreEntry_below40(acc, e) ==
    IF e.key \notin PollutantType THEN acc
    ELSE IF e.key \notin DOMAIN WEIGHTS THEN acc
    ELSE IF ScoreRaises(e.key, e.value) # "no"
         THEN [acc EXCEPT !.raised = ScoreRaises(e.key, e.value)]
    ELSE LET score == get_pollutant_score(e.key, e.value)
             level == get_pollutant_level(e.key, e.value)
             weight == WEIGHTS[e.key]
         IN  [weighted_score |-> acc.weighted_score + score * weight,
              pollutants_details |->
                  Append(acc.pollutants_details,
                         [pollutant |-> e.key, value |-> Round2(e.value),
                          score |-> score, level |-> level, weight |-> weight]),
              problematic |->
                  IF score < 40
                  THEN Append(acc.problematic,
                              [pollutant |-> e.key, value |-> e.value,
                               score |-> score, level |-> level])
                  ELSE acc.problematic,
              raised |-> "no"]

\* mutant: no "pollutant not in cls.WEIGHTS" test, so a temperature entry
\* reaches get_pollutant_score
ScoreEntry_unguarded(acc, e) ==
    IF e.key \notin PollutantType THEN acc
    ELSE IF ScoreRaises(e.key, e.value) # "no"
         THEN [acc EXCEPT !.raised = ScoreRaises(e.key, e.value)]
    ELSE LET score == get_pollutant_score(e.key, e.value)
             level == get_pollutant_level(e.key, e.value)
             weight == WEIGHTS[e.key]
         IN  [weighted_score |-> acc.weighted_score + score * weight,
              pollutants_details |->
                  Append(acc.pollutants_details,
                         [pollutant |-> e.key, value |-> Round2(e.value),
                          score |-> score, level |-> level, weight |-> weight]),
              problematic |->
                  IF score < 60
                  THEN Append(acc.problematic,
                              [pollutant |-> e.key, value |-> e.value,
                               score |-> score, level |-> level])
                  ELSE acc.problematic,
              raised |-> "no"]

\* One pass of the for loop over predictions.items(): PollutantType(key)
\* raises ValueError for a key outside the enumeration (caught: the entry is
\* skipped), a kind without weight is skipped, and the TypeError of a None
\* value is not caught and ends the call.
ScoreEntry(acc, e) ==
    IF e.key \notin PollutantType THEN acc
    ELSE IF e.key \notin DOMAIN WEIGHTS THEN acc
    ELSE IF ScoreRaises(e.key, e.value) # "no"
         THEN [acc EXCEPT !.raised = ScoreRaises(e.key, e.value)]
    ELSE LET score == get_pollutant_score(e.key, e.value)
             level == get_pollutant_level(e.key, e.value)
             weight == WEIGHTS[e.key]
         IN  [weighted_score |-> acc.weighted_score + score * weight,
              pollutants_details |->
                  Append(acc.pollutants_details,
                         [pollutant |-> e.key, value |-> Round2(e.value),
                          score |-> score, level |-> level, weight |-> weight]),
              problematic |->
                  IF score < 60
                  THEN Append(acc.problematic,
                              [pollutant |-> e.key, value |-> e.value,
                               score |-> score, level |-> level])
                  ELSE acc.problematic,
              raised |-> "no"]

RECURSIVE ScoreLoop(_, _, _)
ScoreLoop(preds, i, acc) ==
    IF i > Len(preds) \/ acc.raised # "no" THEN acc
    ELSE ScoreLoop(preds, i + 1, ScoreEntry(acc, preds[i]))

\* mutant: the level cutoffs are exclusive (> in place of >=)
GlobalLevel_exclusive(weighted_score) ==
    IF weighted_score > 8000 THEN "good"
    ELSE IF weighted_score > 6000 THEN "moderate"
    ELSE IF weighted_score > 4000 THEN "poor"
    ELSE "very_poor"

\* weighted_score is in hundredths
GlobalLevel(weighted_score) ==
    IF weighted_score >= 8000 THEN "good"
    ELSE IF weighted_score >= 6000 THEN "moderate"
    ELSE IF weighted_score >= 4000 THEN "poor"
    ELSE "very_poor"

\* round(weighted_score, 1), in hundredths
Round1(weighted_score) == RoundHalfEven(weighted_score, 10)

Raised(exc) ==
    [raised |-> exc, global_score |-> 0, global_level |-> "none",
     pollutants_details |-> <<>>, problematic_pollutants |-> <<>>]

RECURSIVE SumWeights(_, _)
SumWeights(details, i) ==
    IF i > Len(details) THEN 0 ELSE details[i].weight + SumWeights(details, i + 1)

\* mutant: the weighted sum is renormalised by the weights that are present
calculate_global_score_renormalised(preds) ==
    LET acc == ScoreLoop(preds, 1, EmptyAcc)
        total == SumWeights(acc.pollutants_details, 1)
        ws == IF total = 0 THEN 0 ELSE (acc.weighted_score * 100) \div total
    IN  IF acc.raised # "no" THEN Raised(acc.raised)
        ELSE [raised |-> "no",
              global_score |-> Round1(ws),
              global_level |-> GlobalLevel(ws),
              pollutants_details |-> acc.pollutants_details,
              problematic_pollutants |-> acc.problematic]

calculate_global_score(preds) ==
    LET acc == ScoreLoop(preds, 1, EmptyAcc)
    IN  IF acc.raised # "no" THEN Raised(acc.raised)
        ELSE [raised |-> "no",
              global_score |-> Round1(acc.weighted_score),
              global_level |-> GlobalLevel(acc.weighted_score),
              pollutants_details |-> acc.pollutants_details,
              problematic_pollutants |-> acc.problematic]

-----------------------------------------------------------------------------
(* 4.4 / 4.5 Capability-aware action selector *)

ModuleTypes == {"fenetre", "ventilation", "purificateur", "clim"}

\* rules.get("secondary", []) of a rule without secondary list is <<>>
ACTION_RULES ==
    [p \in {"co2", "pm25", "tvoc", "humidity"} |->
        CASE p = "co2" ->
                [primary |-> <<"fenetre", "ventilation">>,
                 secondary |-> <<>>,
                 actions |-> [fenetre |-> <<"ouvrir_fenetre">>,
                              ventilation |-> <<"activer_ventilation",
                                                "augmenter_ventilation">>]]
          [] p = "pm25" ->
                [primary |-> <<"purificateur">>,
                 secondary |-> <<"ventilation">>,
                 actions |-> [purificateur |-> <<"activer_purificateur">>,
                              ventilation |-> <<"activer_ventilation">>]]
          [] p = "tvoc" ->
                [primary |-> <<"fenetre", "ventilation", "purificateur">>,
                 secondary |-> <<>>,
                 actions |-> [fenetre |-> <<"ouvrir_fenetre">>,
                              ventilation |-> <<"activer_ventilation",
                                                "augmenter_ventilation">>,
                              purificateur |-> <<"activer_purificateur">>]]
          [] p = "humidity" ->
                [primary |-> <<"ventilation", "clim">>,
                 secondary |-> <<>>,
                 actions |-> [ventilation |-> <<"activer_ventilation">>,
                              clim |-> <<"activer_clim">>]]]

\* mutant: usable as soon as the module is in the profile and controllable
has_module_ignoring_availability(room, module_type) ==
    /\ module_type \in DOMAIN room.modules
    /\ room.modules[module_type].can_control

\* RoomModules.has_module
has_module(room, module_type) ==
    /\ module_type \in DOMAIN room.modules
    /\ room.modules[module_type].is_available
    /\ room.modules[module_type].can_control

\* mutant: an unrecognized level falls back to low
_get_priority_low_default(level) ==
    CASE level = "very_poor" -> "urgent"
      [] level = "poor" -> "high"
      [] level = "moderate" -> "medium"
      [] OTHER -> "low"

_get_priority(level) ==
    CASE level = "very_poor" -> "urgent"
      [] level = "poor" -> "high"
      [] level = "moderate" -> "medium"
      [] level = "good" -> "low"
      [] OTHER -> "medium"

\* mutant: the last declared level is taken for the highest
SeqMax_last(seq, i) == seq[Len(seq)]

RECURSIVE SeqMax(_, _)
SeqMax(seq, i) ==
    IF i = Len(seq) THEN seq[i]
    ELSE LET rest == SeqMax(seq, i + 1)
         IN  IF seq[i] >= rest THEN seq[i] ELSE rest

\* power_levels is None or a list; both None and [] are falsy
Truthy(power_levels) == ~power_levels.none /\ Len(power_levels.list) > 0

NoAction == [made |-> FALSE, raised |-> "no"]

\* ActionSelector._create_action: None without a controllable module,
\* TypeError from round(None, 2), else the action
_create_action(action_type, module_type, pollutant, value, level, room) ==
    IF module_type \notin DOMAIN room.modules
           \/ ~room.modules[module_type].can_control
    THEN NoAction
    ELSE IF value.tag = "none" THEN [made |-> FALSE, raised |-> "TypeError"]
    ELSE LET module == room.modules[module_type]
         IN  [made |-> TRUE, raised |-> "no",
              action |->
                 [action_type |-> action_type,
                  module_type |-> module_type,
                  enseigne |-> room.enseigne,
                  salle |-> room.salle,
                  reason |-> [pollutant |-> pollutant, value |-> Round2(value),
                              level |-> level],
                  priority |-> _get_priority(level),
                  parameters |->
                     IF action_type \in {"augmenter_ventilation", "activer_ventilation"}
                     THEN IF Truthy(module.power_levels)
                          THEN IF level = "very_poor"
                               THEN <<[name |-> "power_level",
                                       val |-> SeqMax(module.power_levels.list, 1)]>>
                               ELSE IF level = "poor"
                               THEN <<[name |-> "power_level",
                                       val |-> SeqMax(module.power_levels.list, 1) - 1]>>
                               ELSE <<[name |-> "power_level",
                                       val |-> SeqMax(module.power_levels.list, 1) \div 2]>>
                          ELSE <<>>
                     ELSE IF action_type = "ajuster_temperature"
                     THEN <<[name |-> "target_temperature", val |-> 22]>>
                     ELSE <<>>]]

\* for action_type in module_actions: the first action that is created
RECURSIVE ActionScan(_, _, _, _, _)
ActionScan(module_actions, module_type, problem, room, k) ==
    IF k > Len(module_actions) THEN NoAction
    ELSE LET made == _create_action(module_actions[k], module_type,
                                    problem.pollutant, problem.value,
                                    problem.level, room)
         IN  IF made.raised # "no" \/ made.made THEN made
             ELSE ActionScan(module_actions, module_type, problem, room, k + 1)

\* rules["actions"].get(module_type, [])
ModuleActions(rules, module_type) ==
    IF module_type \in DOMAIN rules.actions THEN rules.actions[module_type]
    ELSE <<>>

\* mutant: the scan of the primary modules runs from the last to the first
RECURSIVE PrimaryScan_reversed(_, _, _, _)
PrimaryScan_reversed(rules, problem, room, i) ==
    LET n == Len(rules.primary) + 1 - i
    IN  IF i > Len(rules.primary) THEN NoAction
        ELSE IF has_module(room, rules.primary[n])
        THEN LET made == ActionScan(ModuleActions(rules, rules.primary[n]),
                                    rules.primary[n], problem, room, 1)
             IN  IF made.raised # "no" \/ made.made THEN made
                 ELSE PrimaryScan_reversed(rules, problem, room, i + 1)
        ELSE PrimaryScan_reversed(rules, problem, room, i + 1)

\* for module_type in primary_modules: stops at the first usable module for
\* which an action was created
RECURSIVE PrimaryScan(_, _, _, _)
PrimaryScan(rules, problem, room, i) ==
    IF i > Len(rules.primary) THEN NoAction
    ELSE IF has_module(room, rules.primary[i])
    THEN LET made == ActionScan(ModuleActions(rules, rules.primary[i]),
                                rules.primary[i], problem, room, 1)
         IN  IF made.raised # "no" \/ made.made THEN made
             ELSE PrimaryScan(rules, problem, room, i + 1)
    ELSE PrimaryScan(rules, problem, room, i + 1)

\* for module_type in secondary_modules: stops at the first usable module,
\* whether or not an action was created for it
RECURSIVE SecondaryScan(_, _, _, _)
SecondaryScan(rules, problem, room, i) ==
    IF i > Len(rules.secondary) THEN NoAction
    ELSE IF has_module(room, rules.secondary[i])
    THEN ActionScan(ModuleActions(rules, rules.secondary[i]),
                    rules.secondary[i], problem, room, 1)
    ELSE SecondaryScan(rules, problem, room, i + 1)

EmptySelection == [raised |-> "no", actions |-> <<>>, warnings |-> <<>>]

Warn(acc, kind, pollutant) ==
    [acc EXCEPT !.warnings = Append(@, [kind |-> kind, pollutant |-> pollutant])]

\* mutant: the secondary modules are tried whether or not a primary action
\* was found
SelectEntry_both_paths(acc, problem, room) ==
    IF problem.pollutant \notin PollutantType
    THEN Warn(acc, "Polluant inconnu", problem.pollutant)
    ELSE IF problem.pollutant \notin DOMAIN ACTION_RULES
    THEN Warn(acc, "Aucune regle definie", problem.pollutant)
    ELSE LET rules == ACTION_RULES[problem.pollutant]
             first == PrimaryScan(rules, problem, room, 1)
             second == SecondaryScan(rules, problem, room, 1)
             one == IF first.made THEN <<first.action>> ELSE <<>>
             two == IF second.made THEN <<second.action>> ELSE <<>>
         IN  IF first.raised # "no" THEN [acc EXCEPT !.raised = first.raised]
             ELSE IF second.raised # "no" THEN [acc EXCEPT !.raised = second.raised]
             ELSE IF first.made \/ second.made
                  THEN [acc EXCEPT !.actions = @ \o one \o two]
             ELSE IF rules.secondary = <<>>
                  THEN Warn(acc, "Aucun module disponible", problem.pollutant)
             ELSE acc

\* mutant: the profile is indexed (modules[module_type]) instead of read with
\* get, so a module missing from the profile is a KeyError
SelectEntry_keyerror(acc, problem, room) ==
    IF problem.pollutant \notin PollutantType
    THEN Warn(acc, "Polluant inconnu", problem.pollutant)
    ELSE IF problem.pollutant \notin DOMAIN ACTION_RULES
    THEN Warn(acc, "Aucune regle definie", problem.pollutant)
    ELSE LET rules == ACTION_RULES[problem.pollutant]
             first == PrimaryScan(rules, problem, room, 1)
             action_found == first.made
             second == IF action_found \/ first.raised # "no" THEN NoAction
                       ELSE SecondaryScan(rules, problem, room, 1)
         IN  IF \E i \in 1..Len(rules.primary) :
                    rules.primary[i] \notin DOMAIN room.modules
             THEN [acc EXCEPT !.raised = "KeyError"]
             ELSE IF first.raised # "no" THEN [acc EXCEPT !.raised = first.raised]
             ELSE IF second.raised # "no" THEN [acc EXCEPT !.raised = second.raised]
             ELSE IF action_found
                  THEN [acc EXCEPT !.actions = Append(@, first.action)]
             ELSE IF second.made
                  THEN [acc EXCEPT !.actions = Append(@, second.action)]
             ELSE IF rules.secondary = <<>>
                  THEN Warn(acc, "Aucun module disponible", problem.pollutant)
             ELSE acc

\* mutant: the ValueError of an unknown pollutant is not caught, and a kind
\* without rule is a KeyError (ACTION_RULES[...] instead of get)
SelectEntry_uncaught(acc, problem, room) ==
    IF problem.pollutant \notin PollutantType
    THEN [acc EXCEPT !.raised = "ValueError"]
    ELSE IF problem.pollutant \notin DOMAIN ACTION_RULES
    THEN [acc EXCEPT !.raised = "KeyError"]
    ELSE LET rules == ACTION_RULES[problem.pollutant]
             first == PrimaryScan(rules, problem, room, 1)
             action_found == first.made
             second == IF action_found \/ first.raised # "no" THEN NoAction
                       ELSE SecondaryScan(rules, problem, room, 1)
         IN  IF first.raised # "no" THEN [acc EXCEPT !.raised = first.raised]
             ELSE IF second.raised # "no" THEN [acc EXCEPT !.raised = second.raised]
             ELSE IF action_found
                  THEN [acc EXCEPT !.actions = Append(@, first.action)]
             ELSE IF second.made
                  THEN [acc EXCEPT !.actions = Append(@, second.action)]
             ELSE IF rules.secondary = <<>>
                  THEN Warn(acc, "Aucun module disponible", problem.pollutant)
             ELSE acc

\* one pass of the loop "for problem in problematic"
SelectEntry(acc, problem, room) ==
    IF problem.pollutant \notin PollutantType
    THEN Warn(acc, "Polluant inconnu", problem.pollutant)
    ELSE IF problem.pollutant \notin DOMAIN ACTION_RULES
    THEN Warn(acc, "Aucune regle definie", problem.pollutant)
    ELSE LET rules == ACTION_RULES[problem.pollutant]
             first == PrimaryScan(rules, problem, room, 1)
             action_found == first.made
             second == IF action_found \/ first.raised # "no" THEN NoAction
                       ELSE SecondaryScan(rules, problem, room, 1)
         IN  IF first.raised # "no" THEN [acc EXCEPT !.raised = first.raised]
             ELSE IF second.raised # "no" THEN [acc EXCEPT !.raised = second.raised]
             ELSE IF action_found
                  THEN [acc EXCEPT !.actions = Append(@, first.action)]
             ELSE IF second.made
                  THEN [acc EXCEPT !.actions = Append(@, second.action)]
             ELSE IF rules.secondary = <<>>
                  THEN Warn(acc, "Aucun module disponible", problem.pollutant)
             ELSE acc

\* mutant: a module already chosen for an earlier pollutant is not chosen
\* again (deduplication across pollutants)
RECURSIVE SelectLoop_dedup(_, _, _, _)
SelectLoop_dedup(problematic, room, i, acc) ==
    IF i > Len(problematic) \/ acc.raised # "no" THEN acc
    ELSE LET next == SelectEntry(acc, problematic[i], room)
             fresh == Len(next.actions) > Len(acc.actions)
             again == fresh /\ \E k \in 1..Len(acc.actions) :
                         acc.actions[k].module_type =
                             next.actions[Len(next.actions)].module_type
         IN  SelectLoop_dedup(problematic, room, i + 1,
                              IF again THEN acc ELSE next)

RECURSIVE SelectLoop(_, _, _, _)
SelectLoop(problematic, room, i, acc) ==
    IF i > Len(problematic) \/ acc.raised # "no" THEN acc
    ELSE SelectLoop(problematic, room, i + 1,
                    SelectEntry(acc, problematic[i], room))

\* ActionSelector.select_actions
select_actions(analysis, room) ==
    LET problematic == analysis.problematic_pollutants
        acc == SelectLoop(problematic, room, 1, EmptySelection)
    IN  IF acc.raised # "no"
        THEN [raised |-> acc.raised, actions |-> <<>>, warnings |-> <<>>]
        ELSE acc

-----------------------------------------------------------------------------
(* Inputs *)

\* longest predictions map the driver passes
MaxReadings == 4

\* a key that is no value of PollutantType
UnknownKey == "no2"

PredictionKeys == PollutantType \cup {UnknownKey}

\* values a predictions map may hold for a key: on and off a cutoff, below
\* zero, with more than two decimals, NaN and None
SampleValues(key) ==
    CASE key = "co2" -> {Lit(600), Lit(1400), Lit(1450), None}
      [] key = "pm25" -> {Lit(0 - 3), Lit(50), Num(50 * Scale + 1), NaN}
      [] key = "tvoc" -> {Lit(250), Lit(500), Lit(1200)}
      [] key = "humidity" -> {Lit(45), Lit(20), Lit(80)}
      [] key = "temperature" -> {Num(21 * Scale + 504), None}
      [] OTHER -> {Lit(40)}

KeysOf(preds) == {preds[i].key : i \in 1..Len(preds)}

NoAnalysis == Raised("not called")
NoRoom == [enseigne |-> "", salle |-> "", modules |-> <<>>]
NoSelection == [raised |-> "not called", actions |-> <<>>, warnings |-> <<>>]

\* a key that a dict does not hold
Missing == [tag |-> "missing", n |-> 0]

\* the keys of the dicts analyze_risks is given
MetricKeys == {"co2", "pm25", "tvoc", "humidity"}

\* an empty dict
NoValues == [k \in MetricKeys |-> Missing]

\* a configuration without the key forecast_minutes
NoConfig == [has_forecast_minutes |-> FALSE, forecast_minutes |-> 0]

NoRisk == [raised |-> "not called", metrics |-> <<>>, actions_needed |-> <<>>,
           overall_status |-> "none"]

\* the table after CREATE TABLE IF NOT EXISTS on a new database
NoModels == {}

NoCalls == <<>>

-----------------------------------------------------------------------------
(* Driver of calculate_global_score *)

Init ==
    /\ pc = "ready"
    /\ calls = <<>>
    /\ predictions = <<>>
    /\ iaq_analysis = NoAnalysis
    /\ room_modules = NoRoom
    /\ selection = NoSelection
    /\ current_values = NoValues
    /\ predicted_values = NoValues
    /\ config = NoConfig
    /\ risk_analysis = NoRisk
    /\ ml_models = NoModels
    /\ registry_log = NoCalls

\* the caller puts one more reading into the map it will pass
AddReading(key, value) ==
    /\ pc = "ready"
    /\ Len(predictions) < MaxReadings
    /\ key \notin KeysOf(predictions)
    /\ predictions' = Append(predictions, [key |-> key, value |-> value])
    /\ UNCHANGED <<pc, calls, iaq_analysis, room_modules, selection, riskVars, registryVars>>

CalculateGlobalScore ==
    /\ pc = "ready"
    /\ iaq_analysis' = calculate_global_score(predictions)
    /\ pc' = "scored"
    /\ UNCHANGED <<calls, predictions, room_modules, selection, riskVars, registryVars>>

Next ==
    \/ \E key \in PredictionKeys : \E value \in SampleValues(key) :
           AddReading(key, value)
    \/ CalculateGlobalScore

Spec == Init /\ [][Next]_vars

-----------------------------------------------------------------------------
(* Claims on calculate_global_score, checked under Spec *)

Scored == {"co2", "pm25", "tvoc", "humidity"}

HasReturned == pc = "scored" /\ iaq_analysis.raised = "no"

RemoveAt(seq, i) == SubSeq(seq, 1, i - 1) \o SubSeq(seq, i + 1, Len(seq))

FixedWeight(pollutant) ==
    CASE pollutant = "co2" -> 35
      [] pollutant = "pm25" -> 30
      [] pollutant = "tvoc" -> 25
      [] pollutant = "humidity" -> 10

\* sum, in hundredths, of sub-score times fixed weight over the scored
\* pollutants present in the map
RECURSIVE WeightedSum(_, _)
WeightedSum(preds, i) ==
    IF i > Len(preds) THEN 0
    ELSE (IF preds[i].key \in Scored
          THEN get_pollutant_score(preds[i].key, preds[i].value)
                   * FixedWeight(preds[i].key)
          ELSE 0) + WeightedSum(preds, i + 1)

\* C1: global_score is the sum over the pollutants present (co2, pm25, tvoc,
\* humidity) of sub-score times fixed weight (0.35, 0.30, 0.25, 0.10),
\* rounded to one decimal; an absent pollutant's weight is not
\* redistributed, so leaving a pollutant out never raises the total.
C1_WeightedSum ==
    HasReturned =>
        /\ iaq_analysis.global_score = RoundHalfEven(WeightedSum(predictions, 1), 10)
        /\ \A i \in 1..Len(predictions) :
              LET without == calculate_global_score(RemoveAt(predictions, i))
              IN  without.raised = "no"
                      => without.global_score <= iaq_analysis.global_score

C1_Witness ==
    /\ HasReturned
    /\ KeysOf(predictions) \cap Scored = {"co2", "humidity"}
    /\ iaq_analysis.global_score = 100 * 35 + 40 * 10

IsProblem(e) == e.key \in Scored /\ get_pollutant_score(e.key, e.value) < 60

\* C2: problematic holds exactly the scored pollutants whose sub-score is
\* below 60, each once, in the iteration order of the input map.
C2_ProblematicList ==
    HasReturned =>
        LET expected == SelectSeq(predictions, IsProblem)
            got == iaq_analysis.problematic_pollutants
        IN  /\ Len(got) = Len(expected)
            /\ \A i \in 1..Len(got) :
                  /\ got[i].pollutant = expected[i].key
                  /\ got[i].value = expected[i].value
                  /\ got[i].score < 60
                  /\ \E j \in 1..Len(iaq_analysis.pollutants_details) :
                        /\ iaq_analysis.pollutants_details[j].pollutant = got[i].pollutant
                        /\ iaq_analysis.pollutants_details[j].score = got[i].score
            /\ \A j \in 1..Len(iaq_analysis.pollutants_details) :
                  iaq_analysis.pollutants_details[j].score < 60
                      => \E i \in 1..Len(got) :
                            got[i].pollutant = iaq_analysis.pollutants_details[j].pollutant

C2_Witness ==
    /\ HasReturned
    /\ Len(iaq_analysis.problematic_pollutants) = 2
    /\ iaq_analysis.problematic_pollutants[1].pollutant = "tvoc"
    /\ iaq_analysis.problematic_pollutants[2].pollutant = "co2"
    /\ \E j \in 1..Len(iaq_analysis.pollutants_details) :
          iaq_analysis.pollutants_details[j].score = 60

\* C3: global_level is a function of global_score alone: good from 80,
\* moderate from 60, poor from 40, very_poor below; always one of the four.
C3_LevelOfScore ==
    HasReturned =>
        /\ iaq_analysis.global_level \in {"good", "moderate", "poor", "very_poor"}
        /\ iaq_analysis.global_level =
              IF iaq_analysis.global_score >= 80 * 100 THEN "good"
              ELSE IF iaq_analysis.global_score >= 60 * 100 THEN "moderate"
              ELSE IF iaq_analysis.global_score >= 40 * 100 THEN "poor"
              ELSE "very_poor"

C3_Witness ==
    /\ HasReturned
    /\ iaq_analysis.global_score = 60 * 100
    /\ iaq_analysis.global_level = "moderate"

Ignored(key) == key = "temperature" \/ key \notin PollutantType

\* C9: a temperature entry or an entry with an unrecognized key changes
\* nothing in the outcome: the call gives what it gives without that entry
\* (score, level, details and problematic list), the other entries scored.
C9_IgnoredEntries ==
    pc = "scored" =>
        \A i \in 1..Len(predictions) :
            Ignored(predictions[i].key)
                => iaq_analysis = calculate_global_score(RemoveAt(predictions, i))

C9_Witness ==
    /\ HasReturned
    /\ Len(predictions) = 4
    /\ predictions[1] = [key |-> "temperature", value |-> None]
    /\ predictions[3].key = UnknownKey
    /\ Len(iaq_analysis.pollutants_details) = 2
    /\ Len(iaq_analysis.problematic_pollutants) = 1

-----------------------------------------------------------------------------
(* Driver of get_pollutant_score / get_pollutant_level *)

\* calls kept in the log
MaxCalls == 2

\* the numbers at which a band of some table starts or ends
Cutoffs(pollutant) ==
    CASE pollutant = "co2" -> {600, 1000, 1400, 2000}
      [] pollutant = "pm25" -> {12, 25, 50, 100}
      [] pollutant = "tvoc" -> {200, 300, 500, 1000}
      [] pollutant = "humidity" -> {0, 10, 20, 30, 40, 50, 60, 70, 80, 100}
      [] OTHER -> {22}

\* each cutoff, its two neighbours, zero, a negative value, NaN and None
ProbeValues(pollutant) ==
    {Num(c * Scale + d) : c \in Cutoffs(pollutant), d \in {0 - 1, 0, 1}}
        \cup {Lit(0), Num(0 - Scale), NaN, None}

\* score = cls.get_pollutant_score(...); level = cls.get_pollutant_level(...)
ScoreCall(pollutant, value) ==
    /\ pc = "ready"
    /\ Len(calls) < MaxCalls
    /\ calls' = Append(calls,
           IF ScoreRaises(pollutant, value) # "no"
           THEN [pollutant |-> pollutant, value |-> value,
                 raised |-> ScoreRaises(pollutant, value),
                 score |-> 0, level |-> "none"]
           ELSE [pollutant |-> pollutant, value |-> value, raised |-> "no",
                 score |-> get_pollutant_score(pollutant, value),
                 level |-> get_pollutant_level(pollutant, value)])
    /\ UNCHANGED <<pc, predictions, iaq_analysis, room_modules, selection, riskVars, registryVars>>

NextScore ==
    \E pollutant \in PollutantType : \E value \in ProbeValues(pollutant) :
        ScoreCall(pollutant, value)

SpecScore == Init /\ [][NextScore]_vars

Monotone == {"co2", "pm25", "tvoc"}
Returned == {calls[i] : i \in {j \in 1..Len(calls) : calls[j].raised = "no"}}

-----------------------------------------------------------------------------
(* Claims on the pollutant score calculator, checked under SpecScore *)

CutoffList(pollutant) ==
    CASE pollutant = "co2" -> <<600, 1000, 1400, 2000>>
      [] pollutant = "pm25" -> <<12, 25, 50, 100>>
      [] pollutant = "tvoc" -> <<200, 300, 500, 1000>>

\* 100, 80, 60, 40 for the first cutoff the number does not exceed, else 20
FirstCutoffScore(pollutant, n) ==
    LET cut == CutoffList(pollutant)
        hit == {i \in 1..4 : n <= cut[i] * Scale}
    IN  IF hit = {} THEN 20
        ELSE 100 - 20 * ((CHOOSE i \in hit : \A j \in hit : i <= j) - 1)

\* C4: for co2, pm25 and tvoc the score is 100/80/60/40 according to the
\* first of the four ascending cutoffs the value does not exceed (a value
\* equal to a cutoff gets the better score) and 20 above the last cutoff.
C4_CutoffScore ==
    \A c \in Returned :
        (c.pollutant \in Monotone /\ c.value.tag = "num")
            => c.score = FirstCutoffScore(c.pollutant, c.value.n)

C4_Witness ==
    \E c \in Returned :
        /\ c.pollutant = "co2" /\ c.value = Lit(1000) /\ c.score = 80
        /\ \E d \in Returned :
              d.pollutant = "tvoc" /\ d.value = Num(1000 * Scale + 1)
              /\ d.score = 20

\* C5: every returned sub-score lies in [0,100], and for co2, pm25 and tvoc
\* a larger value never gets a larger score.
C5_RangeAndMonotone ==
    /\ \A c \in Returned : 0 <= c.score /\ c.score <= 100
    /\ \A c1, c2 \in Returned :
          (c1.pollutant = c2.pollutant /\ c1.pollutant \in Monotone
              /\ Leq(c1.value, c2.value))
            => c1.score >= c2.score

C5_Witness ==
    \E c1, c2 \in Returned :
        /\ c1.pollutant = "pm25" /\ c2.pollutant = "pm25"
        /\ c1.value = Lit(25) /\ c2.value = Num(50 * Scale + 1)
        /\ c1.score > c2.score

HumidityBands == <<<<40, 50, 100>>, <<30, 60, 80>>, <<20, 70, 60>>, <<10, 80, 40>>>>

\* the score of the innermost band [lo, hi] that holds the number, else 20
HumidityBandScore(n) ==
    LET inside == {i \in 1..4 : HumidityBands[i][1] * Scale <= n
                                  /\ n <= HumidityBands[i][2] * Scale}
    IN  IF inside = {} THEN 20
        ELSE HumidityBands[CHOOSE i \in inside : \A j \in inside : i <= j][3]

\* C6: for humidity the score is 100 in [40,50], 80 in [30,60], 60 in [20,70],
\* 40 in [10,80] and 20 otherwise, every boundary inclusive on both sides.
C6_HumidityBands ==
    \A c \in Returned :
        (c.pollutant = "humidity" /\ c.value.tag = "num")
            => c.score = HumidityBandScore(c.value.n)

C6_Witness ==
    \E c, d \in Returned :
        /\ c.pollutant = "humidity" /\ c.value = Lit(40) /\ c.score = 100
        /\ d.pollutant = "humidity" /\ d.value = Lit(60) /\ d.score = 80

BandOfScore(score) ==
    CASE score = 100 -> "excellent"
      [] score = 80 -> "good"
      [] score = 60 -> "moderate"
      [] score = 40 -> "poor"
      [] OTHER -> "very_poor"

\* C7: for co2, pm25, tvoc and humidity and every value, the level returned
\* by get_pollutant_level is the band of the score returned by
\* get_pollutant_score for the same input, cutoff values included.
C7_LevelIsBandOfScore ==
    \A c \in Returned : c.level = BandOfScore(c.score)

OutOfRange(pollutant, value) ==
    /\ value.tag = "num"
    /\ \/ pollutant \in Monotone /\ value.n < 0
       \/ pollutant = "humidity" /\ (value.n < 0 \/ value.n > 100 * Scale)

\* C8: a value outside the physical range (a negative co2, pm25 or tvoc, a
\* humidity below 0 or above 100) raises nothing and gets score 20 and
\* level very_poor.
C8_OutOfRangeIsWorst ==
    \A i \in 1..Len(calls) :
        OutOfRange(calls[i].pollutant, calls[i].value)
            => /\ calls[i].raised = "no"
               /\ calls[i].score = 20
               /\ calls[i].level = "very_poor"

-----------------------------------------------------------------------------
(* Driver of select_actions *)

\* longest problematic list the driver passes
MaxProblems == 2

Levels(list) == [none |-> FALSE, list |-> list]
NoLevels == [none |-> TRUE, list |-> <<>>]

Capability(module_type, is_available, can_control, power_levels) ==
    [module_type |-> module_type, is_available |-> is_available,
     can_control |-> can_control, current_state |-> "inactif",
     power_levels |-> power_levels]

Absent == [present |-> FALSE, cap |-> Capability("", FALSE, FALSE, NoLevels)]
Present(cap) == [present |-> TRUE, cap |-> cap]

\* what a profile may say of a module: absent, unavailable, not controllable
\* or usable, the ventilation with or without declared power levels
ModuleOptions(m) ==
    CASE m = "fenetre" ->
            {Absent, Present(Capability(m, TRUE, TRUE, NoLevels)),
             Present(Capability(m, TRUE, FALSE, NoLevels))}
      [] m = "ventilation" ->
            {Absent,
             Present(Capability(m, FALSE, TRUE, Levels(<<0, 1, 2, 3>>))),
             Present(Capability(m, TRUE, TRUE, NoLevels)),
             Present(Capability(m, TRUE, TRUE, Levels(<<>>))),
             Present(Capability(m, TRUE, TRUE, Levels(<<0, 1, 2, 3>>))),
             Present(Capability(m, TRUE, TRUE, Levels(<<2, 1>>))),
             Present(Capability(m, TRUE, TRUE, Levels(<<0>>)))}
      [] m = "purificateur" ->
            {Absent, Present(Capability(m, TRUE, TRUE, NoLevels)),
             Present(Capability(m, FALSE, FALSE, NoLevels))}
      [] m = "clim" ->
            {Absent, Present(Capability(m, TRUE, TRUE, NoLevels)),
             Present(Capability(m, TRUE, FALSE, NoLevels))}

Rooms ==
    {[enseigne |-> "Maison", salle |-> "Chambre",
      modules |-> [m \in {x \in ModuleTypes : choice[x].present} |-> choice[m].cap]] :
        choice \in {c \in [ModuleTypes -> UNION {ModuleOptions(m) : m \in ModuleTypes}] :
                       \A m \in ModuleTypes : c[m] \in ModuleOptions(m)}}

Problem(pollutant, value, score, level) ==
    [pollutant |-> pollutant, value |-> value, score |-> score, level |-> level]

\* entries of a problematic list: what calculate_global_score produces for a
\* score below 60, and entries only a caller can write (a kind without rule,
\* an unknown kind, a level other than poor and very_poor)
ProblemSamples ==
    {Problem("co2", Lit(1450), 40, "poor"),
     Problem("co2", Lit(2000), 40, "very_poor"),
     Problem("pm25", NaN, 20, "very_poor"),
     Problem("tvoc", Num(650 * Scale + 6), 40, "poor"),
     Problem("humidity", Lit(85), 20, "very_poor"),
     Problem("humidity", Lit(65), 60, "moderate"),
     Problem("tvoc", Lit(250), 80, "good"),
     Problem("co2", Lit(500), 100, "excellent"),
     Problem("temperature", Lit(30), 40, "poor"),
     Problem(UnknownKey, Lit(40), 40, "poor")}

CallerAnalysis(problematic) ==
    [raised |-> "no", global_score |-> 0, global_level |-> "none",
     pollutants_details |-> <<>>, problematic_pollutants |-> problematic]

InitSelect ==
    /\ pc = "ready"
    /\ calls = <<>>
    /\ predictions = <<>>
    /\ iaq_analysis = CallerAnalysis(<<>>)
    /\ room_modules \in Rooms
    /\ selection = NoSelection
    /\ current_values = NoValues
    /\ predicted_values = NoValues
    /\ config = NoConfig
    /\ risk_analysis = NoRisk
    /\ ml_models = NoModels
    /\ registry_log = NoCalls

\* the caller puts one more entry into the problematic list it will pass
AddProblem(problem) ==
    /\ pc = "ready"
    /\ Len(iaq_analysis.problematic_pollutants) < MaxProblems
    /\ iaq_analysis' =
          [iaq_analysis EXCEPT !.problematic_pollutants = Append(@, problem)]
    /\ UNCHANGED <<pc, calls, predictions, room_modules, selection, riskVars, registryVars>>

\* mutant: the capability records of the chosen modules are updated in place
SelectActions_marking ==
    /\ pc = "ready"
    /\ selection' = select_actions(iaq_analysis, room_modules)
    /\ pc' = "selected"
    /\ room_modules' =
          [room_modules EXCEPT !.modules =
              [m \in DOMAIN room_modules.modules |->
                  IF \E k \in 1..Len(selection'.actions) :
                         selection'.actions[k].module_type = m
                  THEN [room_modules.modules[m] EXCEPT !.current_state = "actif"]
                  ELSE room_modules.modules[m]]]
    /\ UNCHANGED <<calls, predictions, iaq_analysis, riskVars, registryVars>>

SelectActions ==
    /\ pc = "ready"
    /\ selection' = select_actions(iaq_analysis, room_modules)
    /\ pc' = "selected"
    /\ UNCHANGED <<calls, predictions, iaq_analysis, room_modules, riskVars, registryVars>>

NextSelect ==
    \/ \E problem \in ProblemSamples : AddProblem(problem)
    \/ SelectActions

SpecSelect == InitSelect /\ [][NextSelect]_vars

-----------------------------------------------------------------------------
(* Claims on select_actions, checked under SpecSelect *)

HasSelected == pc = "selected" /\ selection.raised = "no"

Usable(m) ==
    /\ m \in DOMAIN room_modules.modules
    /\ room_modules.modules[m].is_available
    /\ room_modules.modules[m].can_control

DeclaredPrimary(pollutant) ==
    CASE pollutant = "co2" -> <<"fenetre", "ventilation">>
      [] pollutant = "pm25" -> <<"purificateur">>
      [] pollutant = "tvoc" -> <<"fenetre", "ventilation", "purificateur">>
      [] pollutant = "humidity" -> <<"ventilation", "clim">>
      [] OTHER -> <<>>

FirstCandidate(m) ==
    CASE m = "fenetre" -> "ouvrir_fenetre"
      [] m = "ventilation" -> "activer_ventilation"
      [] m = "purificateur" -> "activer_purificateur"
      [] m = "clim" -> "activer_clim"

UsablePrimary(pollutant) ==
    {i \in 1..Len(DeclaredPrimary(pollutant)) : Usable(DeclaredPrimary(pollutant)[i])}

FirstUsablePrimary(pollutant) ==
    DeclaredPrimary(pollutant)[CHOOSE i \in UsablePrimary(pollutant) :
                                  \A j \in UsablePrimary(pollutant) : i <= j]

EntriesOf(pollutant) ==
    {i \in 1..Len(iaq_analysis.problematic_pollutants) :
        iaq_analysis.problematic_pollutants[i].pollutant = pollutant}

ActionsFor(pollutant) ==
    {k \in 1..Len(selection.actions) :
        selection.actions[k].reason.pollutant = pollutant}

\* C10: a problematic pollutant whose rule has a usable primary module
\* (present, available and controllable) gets exactly one action per entry,
\* on the first usable module of the rule's primary order, with that
\* module's first candidate action type.
C10_OnePrimaryAction ==
    HasSelected =>
        \A p \in {"co2", "pm25", "tvoc", "humidity"} :
            UsablePrimary(p) # {} =>
                /\ Cardinality(ActionsFor(p)) = Cardinality(EntriesOf(p))
                /\ \A k \in ActionsFor(p) :
                      /\ selection.actions[k].module_type = FirstUsablePrimary(p)
                      /\ selection.actions[k].action_type =
                            FirstCandidate(FirstUsablePrimary(p))

C10_Witness ==
    /\ HasSelected
    /\ ~Usable("fenetre") /\ Usable("ventilation") /\ Usable("purificateur")
    /\ Len(iaq_analysis.problematic_pollutants) = 2
    /\ iaq_analysis.problematic_pollutants[1].pollutant = "tvoc"
    /\ iaq_analysis.problematic_pollutants[2].pollutant = "co2"
    /\ Len(selection.actions) = 2
    /\ selection.actions[1].module_type = "ventilation"
    /\ selection.actions[1].action_type = "activer_ventilation"
    /\ selection.actions[2].reason.pollutant = "co2"

Problems == iaq_analysis.problematic_pollutants

RuleKinds == {"co2", "pm25", "tvoc", "humidity"}

DeclaredSecondary(pollutant) ==
    CASE pollutant = "pm25" -> <<"ventilation">>
      [] OTHER -> <<>>

UsableSecondary(pollutant) ==
    {i \in 1..Len(DeclaredSecondary(pollutant)) :
        Usable(DeclaredSecondary(pollutant)[i])}

FirstUsableSecondary(pollutant) ==
    DeclaredSecondary(pollutant)[CHOOSE i \in UsableSecondary(pollutant) :
                                    \A j \in UsableSecondary(pollutant) : i <= j]

PrimaryModules(pollutant) ==
    {DeclaredPrimary(pollutant)[i] : i \in 1..Len(DeclaredPrimary(pollutant))}

\* C11: an action on a secondary module is emitted for a pollutant only
\* when none of its primary modules is usable; then each entry gets at most
\* one action, on the first usable secondary module (pm25: ventilation),
\* and a pollutant without secondary list gets none.
C11_SecondaryOnlyAsFallback ==
    HasSelected =>
        \A p \in RuleKinds :
            /\ \A k \in ActionsFor(p) :
                  selection.actions[k].module_type \notin PrimaryModules(p)
                      => UsablePrimary(p) = {}
            /\ UsablePrimary(p) = {} =>
                  IF UsableSecondary(p) # {}
                  THEN /\ Cardinality(ActionsFor(p)) = Cardinality(EntriesOf(p))
                       /\ \A k \in ActionsFor(p) :
                             /\ selection.actions[k].module_type =
                                   FirstUsableSecondary(p)
                             /\ selection.actions[k].action_type =
                                   FirstCandidate(FirstUsableSecondary(p))
                  ELSE ActionsFor(p) = {}

C11_Witness ==
    /\ HasSelected
    /\ ~Usable("purificateur") /\ Usable("ventilation")
    /\ Len(Problems) = 1 /\ Problems[1].pollutant = "pm25"
    /\ Len(selection.actions) = 1
    /\ selection.actions[1].module_type = "ventilation"
    /\ selection.actions[1].action_type = "activer_ventilation"

NoUsableModule(pollutant) ==
    UsablePrimary(pollutant) = {} /\ UsableSecondary(pollutant) = {}

\* C12: a problematic pollutant none of whose primary and secondary modules
\* is usable (absent, unavailable or not controllable) gets no action, the
\* call raises nothing, and the pollutants after it are still processed.
C12_NoUsableModule ==
    pc = "selected" =>
        \A i \in 1..Len(Problems) :
            (Problems[i].pollutant \in RuleKinds
                /\ NoUsableModule(Problems[i].pollutant))
            => /\ selection.raised = "no"
               /\ ActionsFor(Problems[i].pollutant) = {}
               /\ \A j \in (i + 1)..Len(Problems) :
                     (Problems[j].pollutant \in RuleKinds
                         /\ ~NoUsableModule(Problems[j].pollutant))
                     => ActionsFor(Problems[j].pollutant) # {}

C12_Witness ==
    /\ pc = "selected"
    /\ "ventilation" \notin DOMAIN room_modules.modules
    /\ "clim" \in DOMAIN room_modules.modules /\ ~Usable("clim")
    /\ Usable("fenetre")
    /\ Len(Problems) = 2
    /\ Problems[1].pollutant = "humidity" /\ Problems[2].pollutant = "co2"
    /\ selection.raised = "no"
    /\ Len(selection.actions) = 1
    /\ selection.actions[1].reason.pollutant = "co2"

\* C13: for every kind with a rule, whenever neither the primary nor the
\* secondary path produced an action for a problematic pollutant, the
\* warning "no module available to correct <pollutant>" is logged for it.
C13_WarningWhenNoAction ==
    pc = "selected" =>
        \A p \in RuleKinds :
            (EntriesOf(p) # {} /\ ActionsFor(p) = {})
                => \E w \in 1..Len(selection.warnings) :
                      selection.warnings[w] =
                          [kind |-> "Aucun module disponible", pollutant |-> p]

RECURSIVE AloneConcat(_)
AloneConcat(i) ==
    IF i > Len(Problems) THEN <<>>
    ELSE select_actions(CallerAnalysis(<<Problems[i]>>), room_modules).actions
             \o AloneConcat(i + 1)

\* C14: selection is done per problematic pollutant independently, without
\* deduplication: the actions for a list are the concatenation, in order, of
\* the actions for each of its entries taken alone.
C14_Independent ==
    HasSelected => selection.actions = AloneConcat(1)

C14_Witness ==
    /\ HasSelected
    /\ Len(selection.actions) = 2
    /\ selection.actions[1].module_type = "fenetre"
    /\ selection.actions[2].module_type = "fenetre"
    /\ selection.actions[1].reason.pollutant = "co2"
    /\ selection.actions[2].reason.pollutant = "tvoc"

PriorityOf(level) ==
    IF level = "very_poor" THEN "urgent"
    ELSE IF level = "poor" THEN "high"
    ELSE IF level = "good" THEN "low"
    ELSE "medium"

\* C15: the priority of every emitted action is a function of the reason's
\* level only: very_poor urgent, poor high, moderate medium, good low, any
\* other level medium.
C15_Priority ==
    HasSelected =>
        \A k \in 1..Len(selection.actions) :
            selection.actions[k].priority =
                PriorityOf(selection.actions[k].reason.level)

C15_Witness ==
    /\ HasSelected
    /\ Len(selection.actions) = 2
    /\ selection.actions[1].reason.level = "excellent"
    /\ selection.actions[1].priority = "medium"
    /\ selection.actions[2].reason.level = "good"
    /\ selection.actions[2].priority = "low"

Highest(list) ==
    CHOOSE x \in {list[i] : i \in 1..Len(list)} :
        \A i \in 1..Len(list) : x >= list[i]

\* C16: an action has a power_level parameter exactly when its type is
\* ventilation activation or boost and the target module declares a
\* non-empty power_levels list: max for very_poor, max - 1 for poor,
\* floor(max / 2) for any other level; every other action has no parameter.
C16_PowerLevel ==
    HasSelected =>
        \A k \in 1..Len(selection.actions) :
            LET a == selection.actions[k]
                declared == room_modules.modules[a.module_type].power_levels
            IN  IF a.action_type \in {"activer_ventilation", "augmenter_ventilation"}
                       /\ ~declared.none /\ declared.list # <<>>
                THEN a.parameters =
                        <<[name |-> "power_level",
                           val |-> IF a.reason.level = "very_poor"
                                   THEN Highest(declared.list)
                                   ELSE IF a.reason.level = "poor"
                                   THEN Highest(declared.list) - 1
                                   ELSE Highest(declared.list) \div 2]>>
                ELSE a.parameters = <<>>

C16_Witness ==
    /\ HasSelected
    /\ Len(selection.actions) = 2
    /\ selection.actions[1].module_type = "ventilation"
    /\ selection.actions[1].reason.level = "poor"
    /\ selection.actions[1].parameters = <<[name |-> "power_level", val |-> 1]>>
    /\ selection.actions[2].reason.level = "moderate"
    /\ selection.actions[2].parameters = <<[name |-> "power_level", val |-> 1]>>

\* C17: select_actions leaves the room profile, every capability record in
\* it and the analysis it was given unchanged.
C17_ReadOnly ==
    [][(pc = "ready" /\ pc' = "selected")
          => (room_modules' = room_modules /\ iaq_analysis' = iaq_analysis)]_vars

C17_Witness ==
    /\ HasSelected
    /\ Len(selection.actions) = 2
    /\ selection.actions[1].module_type = "ventilation"
    /\ selection.actions[1].parameters = <<[name |-> "power_level", val |-> 3]>>
    /\ room_modules.modules["ventilation"] =
          Capability("ventilation", TRUE, TRUE, Levels(<<0, 1, 2, 3>>))
    /\ Len(Problems) = 2

\* C18: a problematic entry of an unknown kind, or of a kind without rule
\* (temperature), produces no action and no exception, and the other entries
\* get the actions they get without it.
C18_NoRuleEntrySkipped ==
    pc = "selected" =>
        \A i \in 1..Len(Problems) :
            Problems[i].pollutant \notin RuleKinds
            => /\ selection.raised = "no"
               /\ ActionsFor(Problems[i].pollutant) = {}
               /\ selection.actions =
                     select_actions(CallerAnalysis(RemoveAt(Problems, i)),
                                    room_modules).actions

C18_Witness ==
    /\ pc = "selected" /\ selection.raised = "no"
    /\ Len(Problems) = 2
    /\ Problems[1].pollutant = "temperature"
    /\ Problems[2].pollutant = "tvoc"
    /\ Len(selection.actions) = 1
    /\ selection.actions[1].reason.pollutant = "tvoc"

-----------------------------------------------------------------------------
(* Claim on the error handling of calculate_global_score, under Spec *)

\* C19: no evaluation aborts because of one faulty entry: the call to
\* calculate_global_score raises nothing, an entry that cannot be evaluated
\* (a None value) is skipped for that pollutant only, and every other
\* weighted pollutant of the map is still scored.
C19_NoAbort ==
    pc = "scored" =>
        /\ iaq_analysis.raised = "no"
        /\ \A i \in 1..Len(predictions) :
              (predictions[i].key \in DOMAIN WEIGHTS
                  /\ predictions[i].value.tag # "none")
              => \E d \in 1..Len(iaq_analysis.pollutants_details) :
                    iaq_analysis.pollutants_details[d].pollutant =
                        predictions[i].key

-----------------------------------------------------------------------------
(* 4.3 Trend-based risk analyzer (ml_predict_generic.py) *)

CRITICAL_THRESHOLDS ==
    [m \in {"co2", "pm25", "tvoc", "humidity", "temperature"} |->
        CASE m = "co2" ->
                [warning |-> Lit(1000), critical |-> Lit(1400), danger |-> Lit(2000)]
          [] m = "pm25" ->
                [warning |-> Lit(25), critical |-> Lit(50), danger |-> Lit(100)]
          [] m = "tvoc" ->
                [warning |-> Lit(300), critical |-> Lit(500), danger |-> Lit(1000)]
          [] m = "humidity" ->
                [warning |-> Lit(60), critical |-> Lit(80), danger |-> Lit(90)]
          [] m = "temperature" ->
                [warning |-> Lit(25), critical |-> Lit(30), danger |-> Lit(35)]]

\* the messages, without their accents
RECOMMENDED_ACTIONS ==
    [m \in {"co2", "pm25", "tvoc"} |->
        CASE m = "co2" ->
                [warning |-> "Augmenter la ventilation",
                 critical |-> "Ouvrir les fenetres immediatement",
                 danger |-> "Evacuer la piece et aerer completement"]
          [] m = "pm25" ->
                [warning |-> "Activer le purificateur d'air",
                 critical |-> "Purificateur a puissance maximale + ventilation",
                 danger |-> "Eviter la piece, purification intensive requise"]
          [] m = "tvoc" ->
                [warning |-> "Aerer la piece pendant 15 minutes",
                 critical |-> "Ventilation intensive + identifier la source",
                 danger |-> "Evacuer et ventiler completement la zone"]]

\* mutant: a value on a threshold stays below it (> in place of >=)
_get_risk_level_exclusive(value, thresholds) ==
    IF Lt(thresholds.danger, value) THEN "danger"
    ELSE IF Lt(thresholds.critical, value) THEN "critical"
    ELSE IF Lt(thresholds.warning, value) THEN "warning"
    ELSE "good"

\* RealtimeGenericPredictor._get_risk_level
_get_risk_level(value, thresholds) ==
    IF Leq(thresholds.danger, value) THEN "danger"
    ELSE IF Leq(thresholds.critical, value) THEN "critical"
    ELSE IF Leq(thresholds.warning, value) THEN "warning"
    ELSE "good"

\* mutant: the status is taken from the current levels
_get_overall_status_current(risks) ==
    LET levels == {risks[i].current_level : i \in 1..Len(risks)}
    IN  IF "danger" \in levels THEN "danger"
        ELSE IF "critical" \in levels THEN "critical"
        ELSE IF "warning" \in levels THEN "warning"
        ELSE "good"

\* RealtimeGenericPredictor._get_overall_status, risks in insertion order
_get_overall_status(risks) ==
    LET levels == {risks[i].predicted_level : i \in 1..Len(risks)}
    IN  IF "danger" \in levels THEN "danger"
        ELSE IF "critical" \in levels THEN "critical"
        ELSE IF "warning" \in levels THEN "warning"
        ELSE "good"

\* mutant: a value that is not there counts as 0
Get_zero_default(dict, key) ==
    IF key \notin DOMAIN dict \/ dict[key].tag \in {"missing", "none"} THEN Lit(0)
    ELSE dict[key]

\* dict.get(key): None for a key the dict does not hold
Get(dict, key) ==
    IF key \notin DOMAIN dict \/ dict[key].tag = "missing" THEN None
    ELSE dict[key]

\* round((predicted - current) / current * 100, 2) if current > 0 else 0,
\* in hundredths; the quotient is taken two decimal digits at a time
ChangePercent(current_val, predicted_val) ==
    IF Lt(Lit(0), current_val)
    THEN LET diff == predicted_val.n - current_val.n
             whole == (diff * 100) \div current_val.n
             rest == (diff * 100) % current_val.n
             q == whole * 100 + (rest * 100) \div current_val.n
             r == (rest * 100) % current_val.n
         IN  IF 2 * r < current_val.n THEN q
             ELSE IF 2 * r > current_val.n THEN q + 1
             ELSE IF q % 2 = 0 THEN q ELSE q + 1
    ELSE 0

MetricOrder == <<"co2", "pm25", "tvoc">>

EmptyRisk == [raised |-> "no", metrics |-> <<>>, actions_needed |-> <<>>]

\* one pass of the loop of analyze_risks over ['co2', 'pm25', 'tvoc']
RiskEntry(acc, metric, current, predicted, cfg) ==
    LET current_val == Get(current, metric)
        predicted_val == Get(predicted, metric)
    IN  IF current_val.tag = "none" \/ predicted_val.tag = "none" THEN acc
        ELSE
        LET thresholds == CRITICAL_THRESHOLDS[metric]
            current_level == _get_risk_level(current_val, thresholds)
            predicted_level == _get_risk_level(predicted_val, thresholds)
            trend == IF Lt(current_val, predicted_val)
                     THEN "increasing" ELSE "decreasing"
            risk == [metric |-> metric,
                     current_value |-> Round2(current_val),
                     predicted_value |-> Round2(predicted_val),
                     current_level |-> current_level,
                     predicted_level |-> predicted_level,
                     trend |-> trend,
                     change_percent |-> ChangePercent(current_val, predicted_val)]
            risks == Append(acc.metrics, risk)
            Action(level, priority, eta) ==
                [metric |-> metric, level |-> level,
                 action |-> RECOMMENDED_ACTIONS[metric][level],
                 priority |-> priority,
                 estimated_time_to_critical |-> eta]
        IN  IF current_level \in {"critical", "danger"} /\ trend = "increasing"
            THEN [acc EXCEPT
                    !.metrics = risks,
                    !.actions_needed =
                        Append(@, Action(current_level, "urgent",
                                         [text |-> "Maintenant", minutes |-> 0]))]
            ELSE IF current_level \in {"critical", "danger"} /\ trend = "decreasing"
            THEN IF predicted_level \in {"critical", "danger"}
                 THEN [acc EXCEPT
                         !.metrics = risks,
                         !.actions_needed =
                             Append(@, Action(current_level, "high",
                                              [text |-> "Actuellement critique",
                                               minutes |-> 0]))]
                 ELSE [acc EXCEPT !.metrics = risks]
            ELSE IF predicted_level \in {"critical", "danger"}
                       /\ current_level \notin {"critical", "danger"}
            THEN IF ~cfg.has_forecast_minutes
                 THEN [acc EXCEPT !.raised = "KeyError"]
                 ELSE [acc EXCEPT
                         !.metrics = risks,
                         !.actions_needed =
                             Append(@, Action(predicted_level,
                                              IF predicted_level = "danger"
                                              THEN "high" ELSE "medium",
                                              [text |-> "minutes",
                                               minutes |-> cfg.forecast_minutes * 5]))]
            ELSE [acc EXCEPT !.metrics = risks]

RECURSIVE RiskLoop(_, _, _, _, _)
RiskLoop(current, predicted, cfg, i, acc) ==
    IF i > Len(MetricOrder) \/ acc.raised # "no" THEN acc
    ELSE RiskLoop(current, predicted, cfg, i + 1,
                  RiskEntry(acc, MetricOrder[i], current, predicted, cfg))

\* RealtimeGenericPredictor.analyze_risks
analyze_risks(current, predicted, cfg) ==
    LET acc == RiskLoop(current, predicted, cfg, 1, EmptyRisk)
    IN  IF acc.raised # "no"
        THEN [raised |-> acc.raised, metrics |-> <<>>, actions_needed |-> <<>>,
              overall_status |-> "none"]
        ELSE [raised |-> "no", metrics |-> acc.metrics,
              actions_needed |-> acc.actions_needed,
              overall_status |-> _get_overall_status(acc.metrics)]

-----------------------------------------------------------------------------
(* Driver of analyze_risks *)

\* forecast_minutes written into the configuration by training (5-minute steps)
FORECAST_MINUTES == 6

Configs == {NoConfig,
            [has_forecast_minutes |-> TRUE, forecast_minutes |-> FORECAST_MINUTES]}

\* current values the predictor may pass for a key: below, on and above the
\* thresholds, and None (safe_float of a NaN reading)
CurrentSamples(key) ==
    CASE key = "co2" -> {Num(999990), Lit(1000), Lit(1400), Lit(2000), None}
      [] key = "pm25" -> {Lit(20), Lit(50), Lit(100), Lit(120)}
      [] key = "tvoc" -> {Lit(300), Lit(1000)}
      [] key = "humidity" -> {Lit(95)}

\* predicted values: the same, None standing for a NaN or Inf model output
PredictedSamples(key) ==
    CASE key = "co2" -> {Num(999990), Lit(1000), Lit(1400), Lit(2000), None}
      [] key = "pm25" -> {Lit(20), Lit(50), Lit(100), Lit(120)}
      [] key = "tvoc" -> {Num(499999), Lit(1000)}
      [] key = "humidity" -> {Lit(95)}

InitRisk ==
    /\ pc = "ready"
    /\ calls = <<>>
    /\ predictions = <<>>
    /\ iaq_analysis = NoAnalysis
    /\ room_modules = NoRoom
    /\ selection = NoSelection
    /\ current_values = NoValues
    /\ predicted_values = NoValues
    /\ config \in Configs
    /\ risk_analysis = NoRisk
    /\ ml_models = NoModels
    /\ registry_log = NoCalls

\* current_values[key] = safe_float(df[key])
ReadCurrent(key, value) ==
    /\ pc = "ready"
    /\ current_values[key] = Missing
    /\ current_values' = [current_values EXCEPT ![key] = value]
    /\ UNCHANGED <<pc, calls, predictions, iaq_analysis, room_modules, selection,
                   predicted_values, config, risk_analysis, registryVars>>

\* predictions[target] = val, or None for NaN/Inf
Predict(key, value) ==
    /\ pc = "ready"
    /\ predicted_values[key] = Missing
    /\ predicted_values' = [predicted_values EXCEPT ![key] = value]
    /\ UNCHANGED <<pc, calls, predictions, iaq_analysis, room_modules, selection,
                   current_values, config, risk_analysis, registryVars>>

\* risk_analysis = self.analyze_risks(current_values, predictions)
AnalyzeRisks ==
    /\ pc = "ready"
    /\ risk_analysis' = analyze_risks(current_values, predicted_values, config)
    /\ pc' = "analyzed"
    /\ UNCHANGED <<calls, predictions, iaq_analysis, room_modules, selection,
                   current_values, predicted_values, config, registryVars>>

NextRisk ==
    \/ \E key \in MetricKeys : \E value \in CurrentSamples(key) :
          ReadCurrent(key, value)
    \/ \E key \in MetricKeys : \E value \in PredictedSamples(key) :
          Predict(key, value)
    \/ AnalyzeRisks

SpecRisk == InitRisk /\ [][NextRisk]_vars

-----------------------------------------------------------------------------
(* Claims on analyze_risks, checked under SpecRisk *)

HasAnalyzed == pc = "analyzed" /\ risk_analysis.raised = "no"

\* the thresholds of the three analyzed metrics, in fixed-point units
RiskCutoffs(metric) ==
    CASE metric = "co2" -> <<1000 * Scale, 1400 * Scale, 2000 * Scale>>
      [] metric = "pm25" -> <<25 * Scale, 50 * Scale, 100 * Scale>>
      [] metric = "tvoc" -> <<300 * Scale, 500 * Scale, 1000 * Scale>>

RiskBand(metric, value) ==
    IF value.n >= RiskCutoffs(metric)[3] THEN "danger"
    ELSE IF value.n >= RiskCutoffs(metric)[2] THEN "critical"
    ELSE IF value.n >= RiskCutoffs(metric)[1] THEN "warning"
    ELSE "good"

\* C20: in the trend analyzer the risk level of a value is the highest of
\* warning, critical, danger whose threshold the value reaches (value >=
\* threshold), else good, with thresholds co2 1000/1400/2000, pm25
\* 25/50/100, tvoc 300/500/1000; the score bands do not enter it.
C20_RiskLevel ==
    HasAnalyzed =>
        \A i \in 1..Len(risk_analysis.metrics) :
            LET risk == risk_analysis.metrics[i]
            IN  /\ risk.current_level =
                      RiskBand(risk.metric, current_values[risk.metric])
                /\ risk.predicted_level =
                      RiskBand(risk.metric, predicted_values[risk.metric])

C20_Witness ==
    /\ HasAnalyzed
    /\ Len(risk_analysis.metrics) = 3
    /\ current_values["co2"] = Lit(2000)
    /\ predicted_values["co2"] = Num(999990)
    /\ risk_analysis.metrics[1].current_level = "danger"
    /\ risk_analysis.metrics[1].predicted_level = "good"
    /\ current_values["pm25"] = Lit(50)
    /\ risk_analysis.metrics[2].current_level = "critical"
    /\ current_values["tvoc"] = Lit(300)
    /\ risk_analysis.metrics[3].current_level = "warning"
    /\ get_pollutant_level("tvoc", current_values["tvoc"]) = "moderate"

AnalyzedMetrics == {"co2", "pm25", "tvoc"}

\* a metric of the loop for which both values were given
Evaluated(m) ==
    /\ m \in AnalyzedMetrics
    /\ current_values[m].tag = "num"
    /\ predicted_values[m].tag = "num"

CurrentBand(m) == RiskBand(m, current_values[m])
PredictedBand(m) == RiskBand(m, predicted_values[m])
Increasing(m) == predicted_values[m].n > current_values[m].n
Severe == {"critical", "danger"}

ActionsOf(m) ==
    {k \in 1..Len(risk_analysis.actions_needed) :
        risk_analysis.actions_needed[k].metric = m}

\* the one action analyze_risks emitted for m has this level, the message
\* of that level and this priority
OneAction(m, level, priority) ==
    /\ Cardinality(ActionsOf(m)) = 1
    /\ \A k \in ActionsOf(m) :
          /\ risk_analysis.actions_needed[k].level = level
          /\ risk_analysis.actions_needed[k].action = RECOMMENDED_ACTIONS[m][level]
          /\ risk_analysis.actions_needed[k].priority = priority

\* C21: for every evaluated metric whose current level is critical or
\* danger and whose predicted value is greater than the current one,
\* analyze_risks emits exactly one action for it, with priority urgent and
\* with the level and message of the current level.
C21_UrgentRule ==
    pc = "analyzed" =>
        \A m \in AnalyzedMetrics :
            (Evaluated(m) /\ CurrentBand(m) \in Severe /\ Increasing(m))
                => OneAction(m, CurrentBand(m), "urgent")

\* C22: for every evaluated metric whose current level is critical or
\* danger and whose predicted value is not greater than the current one,
\* analyze_risks emits one action with priority high, never urgent, when the
\* predicted level is still critical or danger, and no action for that
\* metric when the predicted level is below critical.
C22_HighRule ==
    pc = "analyzed" =>
        \A m \in AnalyzedMetrics :
            (Evaluated(m) /\ CurrentBand(m) \in Severe /\ ~Increasing(m))
                => IF PredictedBand(m) \in Severe
                   THEN /\ Cardinality(ActionsOf(m)) = 1
                        /\ \A k \in ActionsOf(m) :
                              risk_analysis.actions_needed[k].priority = "high"
                   ELSE ActionsOf(m) = {}

\* C23: for every evaluated metric whose current level is good or warning
\* and whose predicted level is critical or danger, analyze_risks emits
\* exactly one action keyed by the predicted level, with priority high for
\* danger and medium for critical; a metric matching none of the three
\* escalation rules gets no action.
C23_PredictedRule ==
    pc = "analyzed" =>
        \A m \in AnalyzedMetrics :
            Evaluated(m) =>
                /\ (CurrentBand(m) \notin Severe /\ PredictedBand(m) \in Severe)
                      => OneAction(m, PredictedBand(m),
                                   IF PredictedBand(m) = "danger"
                                   THEN "high" ELSE "medium")
                /\ (CurrentBand(m) \notin Severe /\ PredictedBand(m) \notin Severe)
                      => ActionsOf(m) = {}

\* the dict without the key
Without(dict, key) == [dict EXCEPT ![key] = Missing]

MetricsOf(m) ==
    {i \in 1..Len(risk_analysis.metrics) : risk_analysis.metrics[i].metric = m}

\* C24: analyze_risks evaluates only co2, pm25 and tvoc: metrics and
\* actions_needed never mention another key, even when it is supplied, and
\* a metric whose current or predicted value is missing has no metric entry
\* and no action, the outcome being the one of the call without it.
C24_OnlyThreeMetrics ==
    pc = "analyzed" =>
        /\ \A i \in 1..Len(risk_analysis.metrics) :
              risk_analysis.metrics[i].metric \in {"co2", "pm25", "tvoc"}
        /\ \A k \in 1..Len(risk_analysis.actions_needed) :
              risk_analysis.actions_needed[k].metric \in {"co2", "pm25", "tvoc"}
        /\ \A m \in MetricKeys :
              ~Evaluated(m) =>
                  /\ MetricsOf(m) = {}
                  /\ ActionsOf(m) = {}
                  /\ risk_analysis =
                        analyze_risks(Without(current_values, m),
                                      Without(predicted_values, m), config)

C24_Witness ==
    /\ HasAnalyzed
    /\ current_values["humidity"] = Lit(95)
    /\ predicted_values["humidity"] = Lit(95)
    /\ current_values["co2"] = None
    /\ predicted_values["co2"] = Lit(2000)
    /\ current_values["tvoc"] = Lit(1000)
    /\ predicted_values["tvoc"] = Missing
    /\ Len(risk_analysis.metrics) = 1
    /\ risk_analysis.metrics[1].metric = "pm25"
    /\ Len(risk_analysis.actions_needed) = 1
    /\ risk_analysis.actions_needed[1].metric = "pm25"

Rank(level) ==
    CASE level = "good" -> 0
      [] level = "warning" -> 1
      [] level = "critical" -> 2
      [] level = "danger" -> 3

\* C25: the overall_status that analyze_risks returns is the worst
\* predicted level over the evaluated metrics (danger > critical > warning
\* > good), current levels not entering it, and good when no metric was
\* evaluated.
C25_OverallStatus ==
    HasAnalyzed =>
        LET evaluated == {m \in AnalyzedMetrics : Evaluated(m)}
        IN  IF evaluated = {} THEN risk_analysis.overall_status = "good"
            ELSE /\ \E m \in evaluated :
                       risk_analysis.overall_status = PredictedBand(m)
                 /\ \A m \in evaluated :
                       Rank(risk_analysis.overall_status) >= Rank(PredictedBand(m))

C25_Witness ==
    /\ HasAnalyzed
    /\ Len(risk_analysis.metrics) = 2
    /\ risk_analysis.metrics[1].metric = "co2"
    /\ risk_analysis.metrics[1].current_level = "danger"
    /\ risk_analysis.metrics[1].predicted_level = "warning"
    /\ risk_analysis.metrics[2].current_level = "danger"
    /\ risk_analysis.metrics[2].predicted_level = "good"
    /\ risk_analysis.overall_status = "warning"

\* C27: an evaluated metric contributes an action to actions_needed if and
\* only if its predicted level is critical or danger, and at most one;
\* actions_needed is empty exactly when overall_status is good or warning
\* (so a metric at danger now but predicted below critical triggers nothing).
C27_ActionIffPredictedSevere ==
    pc = "analyzed" =>
        /\ \A m \in AnalyzedMetrics :
              Evaluated(m) =>
                  /\ ActionsOf(m) # {} <=> PredictedBand(m) \in Severe
                  /\ Cardinality(ActionsOf(m)) <= 1
        /\ risk_analysis.actions_needed = <<>>
              <=> risk_analysis.overall_status \in {"good", "warning"}

-----------------------------------------------------------------------------
(* Claim on the power level, checked under SpecSelect *)

-----------------------------------------------------------------------------
(* Claim on the problematic list and the global level, checked under Spec *)

BelowModerate == {"poor", "very_poor"}

\* C29 (as stated): for every input of calculate_global_score, also one
\* that lacks some of the four pollutants or is empty, the problematic list
\* is non-empty if and only if global_level is poor or very_poor.
C29_ProblematicIffBelowModerate ==
    HasReturned =>
        (iaq_analysis.problematic_pollutants # <<>>
            <=> iaq_analysis.global_level \in BelowModerate)

\* C29 (amended): when all four weighted pollutants are scored, a
\* global_level of poor or very_poor implies a non-empty problematic list.
C29_BelowModerateHasProblem ==
    (pc = "scored"
        /\ {iaq_analysis.pollutants_details[d].pollutant :
               d \in 1..Len(iaq_analysis.pollutants_details)} = Scored
        /\ iaq_analysis.global_level \in BelowModerate)
    => iaq_analysis.problematic_pollutants # <<>>

C29_Witness ==
    /\ HasReturned
    /\ Len(iaq_analysis.pollutants_details) = 4
    /\ iaq_analysis.global_score = 45 * 100
    /\ iaq_analysis.global_level = "poor"
    /\ Len(iaq_analysis.problematic_pollutants) = 3

-----------------------------------------------------------------------------
(* Model registry (core/sqlite_registry.py), table ml_models *)

\* UPDATE ml_models SET is_active = 0 WHERE model_name = ?
Deactivate(rows, model_name) ==
    {IF r.model_name = model_name THEN [r EXCEPT !.is_active = 0] ELSE r :
        r \in rows}

\* UPDATE ml_models SET is_active = 1 WHERE model_name = ? AND model_version = ?
Activate(rows, model_name, model_version) ==
    {IF r.model_name = model_name /\ r.model_version = model_version
     THEN [r EXCEPT !.is_active = 1] ELSE r :
        r \in rows}

\* INSERT OR REPLACE under UNIQUE(model_name, model_version)
InsertOrReplace(rows, row) ==
    {r \in rows : ~(r.model_name = row.model_name
                      /\ r.model_version = row.model_version)} \cup {row}

\* SQLiteRegistry.register_model: json.dumps(metrics) raising inside the
\* transaction rolls the UPDATE back and the method returns False
register_model(rows, model_name, model_version, serializable, set_active, now) ==
    IF ~serializable THEN [returned |-> FALSE, rows |-> rows]
    ELSE [returned |-> TRUE,
          rows |-> InsertOrReplace(
                      IF set_active THEN Deactivate(rows, model_name) ELSE rows,
                      [model_name |-> model_name,
                       model_version |-> model_version,
                       is_active |-> IF set_active THEN 1 ELSE 0,
                       created_at |-> now])]

\* SQLiteRegistry.set_active_model
set_active_model(rows, model_name, model_version) ==
    [returned |-> TRUE,
     rows |-> Activate(Deactivate(rows, model_name), model_name, model_version)]

\* SQLiteRegistry.get_active_model: the newest active row of the name, or None
get_active_model(rows, model_name) ==
    LET active == {r \in rows : r.model_name = model_name /\ r.is_active = 1}
    IN  IF active = {} THEN [found |-> FALSE, model_version |-> ""]
        ELSE LET row == CHOOSE r \in active :
                            \A o \in active : r.created_at >= o.created_at
             IN  [found |-> TRUE, model_version |-> row.model_version]

-----------------------------------------------------------------------------
(* Driver of the registry *)

\* calls made to the registry
MaxRegistryCalls == 3

ModelNames == {"generic", "lstm"}
ModelVersions == {"v1", "v2"}

InitRegistry ==
    /\ pc = "ready"
    /\ calls = <<>>
    /\ predictions = <<>>
    /\ iaq_analysis = NoAnalysis
    /\ room_modules = NoRoom
    /\ selection = NoSelection
    /\ current_values = NoValues
    /\ predicted_values = NoValues
    /\ config = NoConfig
    /\ risk_analysis = NoRisk
    /\ ml_models = NoModels
    /\ registry_log = NoCalls

\* POST /api/models/register
RegisterModel(model_name, model_version, serializable, set_active) ==
    /\ Len(registry_log) < MaxRegistryCalls
    /\ LET done == register_model(ml_models, model_name, model_version,
                                  serializable, set_active,
                                  Len(registry_log) + 1)
       IN  /\ ml_models' = done.rows
           /\ registry_log' =
                 Append(registry_log,
                        [op |-> "register_model", model_name |-> model_name,
                         model_version |-> model_version,
                         set_active |-> set_active,
                         returned |-> done.returned])
    /\ UNCHANGED <<pc, calls, predictions, iaq_analysis, room_modules, selection,
                   riskVars>>

\* PUT /api/models/activate/{model_name}/{model_version}
SetActiveModel(model_name, model_version) ==
    /\ Len(registry_log) < MaxRegistryCalls
    /\ LET done == set_active_model(ml_models, model_name, model_version)
       IN  /\ ml_models' = done.rows
           /\ registry_log' =
                 Append(registry_log,
                        [op |-> "set_active_model", model_name |-> model_name,
                         model_version |-> model_version,
                         set_active |-> TRUE,
                         returned |-> done.returned])
    /\ UNCHANGED <<pc, calls, predictions, iaq_analysis, room_modules, selection,
                   riskVars>>

NextRegistry ==
    \/ \E model_name \in ModelNames, model_version \in ModelVersions,
          serializable \in BOOLEAN, set_active \in BOOLEAN :
          RegisterModel(model_name, model_version, serializable, set_active)
    \/ \E model_name \in ModelNames, model_version \in ModelVersions :
          SetActiveModel(model_name, model_version)

SpecRegistry == InitRegistry /\ [][NextRegistry]_vars

-----------------------------------------------------------------------------
(* Claim on the registry, checked under SpecRegistry *)

ActiveRows(model_name) ==
    {r \in ml_models : r.model_name = model_name /\ r.is_active = 1}

LastCall == registry_log[Len(registry_log)]

\* C30: after any sequence of register_model and set_active_model calls,
\* whenever set_active_model(name, version) or register_model(name,
\* version, set_active=True) has just returned True, that version is the one
\* and only active model of the name and get_active_model(name) returns it;
\* at no time has a name more than one active version.
C30_OneActiveVersion ==
    /\ \A model_name \in ModelNames : Cardinality(ActiveRows(model_name)) <= 1
    /\ (registry_log # <<>> /\ LastCall.returned /\ LastCall.set_active)
          => /\ {r.model_version : r \in ActiveRows(LastCall.model_name)} =
                   {LastCall.model_version}
             /\ get_active_model(ml_models, LastCall.model_name) =
                   [found |-> TRUE, model_version |-> LastCall.model_version]

=============================================================================
